---- MODULE Spec2Model ----
(***************************************************************************)
(* Model of IngestionService (src/infrastructure/ingestion/                *)
(* ingestion.service.ts): registerSource, ingestAll, ingestSource,         *)
(* saveBatch and flushPending, with the repository writes as promises that *)
(* resolve asynchronously.                                                 *)
(*                                                                         *)
(* A record is identified by the index of the element it was mapped from.  *)
(* elems[s] is the sequence of mapper outcomes of the elements pulled from *)
(* source s so far ("rec", "skip" or "throw"); writes is the sequence of   *)
(* repository.saveAll calls in call order.                                 *)
(***************************************************************************)
EXTENDS Naturals, Sequences, FiniteSets

\* ---------------------------------------------------------------- bounds
\* largest number of registerSource calls before ingestAll
MaxSources == 2
\* largest number of elements pulled from all streams of one run together
MaxElems == 7
\* largest number of elements the mappers skip in one run
MaxSkips == 1
\* largest number of elements of a first run that a second ingestAll repeats
MaxRerunElems == 3
\* largest number of sources registered in the runs checked for termination
MaxFairSources == 1

\* ------------------------------------------------------------- constants
\* BATCH_SIZE (5000 in the source), scaled
BATCH_SIZE == 2
MAX_CONCURRENT_BATCHES == 3

SourceNames == {"A"}

VARIABLES
    sources,       \* this.sources: names of the registered sources, in order
    pc,            \* position of ingestAll / ingestSource
    cur,           \* index of the source the for-of loop of ingestAll is at
    batch,         \* local batch of ingestSource: element indices
    pendingSaves,  \* local pendingSaves of ingestSource: indices into writes
    writes,        \* repository.saveAll calls: [src, recs, state]
    elems,         \* per source: mapper outcome of every element pulled
    status,        \* per source: lifecycle, as reported by the logger
    failure,       \* per source: the error ingestAll caught, or "none"
    saveFailLogs,  \* number of "Failed to save batch" log lines
    streamErrLogs, \* number of "Stream error" log lines
    run,           \* number of ingestAll calls so far
    prev           \* the previous run: what its streams and mappers gave
                   \* (elems, failure) and how many saveAll calls it ended at

vars == <<sources, pc, cur, batch, pendingSaves, writes, elems, status,
          failure, saveFailLogs, streamErrLogs, run, prev>>

\* ---------------------------------------------------------------- helpers
Range(f) == {f[i] : i \in DOMAIN f}

RECURSIVE SumLen(_)
SumLen(ss) == IF ss = <<>> THEN 0 ELSE Len(Head(ss)) + SumLen(Tail(ss))

\* number of elements pulled so far, over all sources
TotalPulled == SumLen(elems)

RECURSIVE CountOf(_, _)
CountOf(seq, x) ==
    IF seq = <<>> THEN 0
    ELSE (IF Head(seq) = x THEN 1 ELSE 0) + CountOf(Tail(seq), x)

RECURSIVE SumCount(_, _)
SumCount(ss, x) ==
    IF ss = <<>> THEN 0 ELSE CountOf(Head(ss), x) + SumCount(Tail(ss), x)

\* number of elements skipped so far, over all sources
TotalSkipped == SumCount(elems, "skip")

\* batch.push(mapped) (line 84)
PushFront(b, x) == <<x>> \o b
Push(b, x) == Append(b, x)

\* batch.length >= BATCH_SIZE (line 86)
BatchFullEarly(b) == Len(b) >= BATCH_SIZE - 1
BatchFull(b) == Len(b) >= BATCH_SIZE

\* batch.splice(0, n): the removed elements ...
SpliceRemoved(b, n) == SubSeq(b, 1, IF n < Len(b) THEN n ELSE Len(b))
\* ... and what stays in the array
SpliceRestKeepsAll(b, n) == b
SpliceRest(b, n) == SubSeq(b, (IF n < Len(b) THEN n ELSE Len(b)) + 1, Len(b))

\* batch.length > 0 (line 98)
HasRemainderOffByOne(b) == Len(b) > 1
HasRemainder(b) == Len(b) > 0

\* pendingSaves.length >= MAX_CONCURRENT_BATCHES (line 91)
ReachedCeilingOffByOne(p) == Len(p) > MAX_CONCURRENT_BATCHES
ReachedCeiling(p) == Len(p) >= MAX_CONCURRENT_BATCHES

\* saveBatch up to its first await: an empty batch returns at once without
\* touching the repository, any other batch calls repository.saveAll
SaveBatch(ws, s, recs) ==
    IF Len(recs) = 0 THEN ws
    ELSE Append(ws, [src |-> s, recs |-> recs, state |-> "inflight"])

\* the promise saveBatch returned for a batch: the index of its write (an
\* empty batch gives an already resolved promise, written 0)
SavePromise(ws, recs) == IF Len(recs) = 0 THEN 0 ELSE Len(ws) + 1

\* the promise has settled: saveBatch resolves whether saveAll resolved or
\* rejected (lines 111-120)
SettledOnlyOk(ws, p) == p = 0 \/ ws[p].state = "ok"
Settled(ws, p) == p = 0 \/ ws[p].state # "inflight"

\* Promise.allSettled(pending) has resolved (line 124)
AllSettledNoWait(ws, pending) == TRUE
AllSettledAny(ws, pending) ==
    pending = <<>> \/ \E i \in DOMAIN pending : Settled(ws, pending[i])
AllSettled(ws, pending) == \A i \in DOMAIN pending : Settled(ws, pending[i])

\* pending.length = 0 (line 125)
ClearedKeeps(pending) == pending
Cleared(pending) == <<>>

\* the catch of saveBatch: one error line per rejected saveAll (lines 114-119)
FailLogsNone(ok) == 0
FailLogs(ok) == IF ok THEN 0 ELSE 1

\* the for-of loop of ingestAll moving on from source c of n (line 33)
LoopNextStopsEarly(c, n) ==
    IF c + 1 < n THEN [pc |-> "open", cur |-> c + 1]
    ELSE [pc |-> "done", cur |-> c]
LoopNext(c, n) ==
    IF c < n THEN [pc |-> "open", cur |-> c + 1] ELSE [pc |-> "done", cur |-> c]

\* ingestSource is called for the source the loop moved to, if any: its
\* ingestion has started ("Starting ingestion", line 53)
Entered(st, nx) ==
    IF nx.pc = "open" THEN [st EXCEPT ![nx.cur] = "Streaming"] ELSE st

\* the catch of ingestAll swallows the error and the loop goes on
\* (lines 36-44)
CaughtRethrows(c, n) == [pc |-> "done", cur |-> c]
Caught(c, n) == LoopNext(c, n)

\* ------------------------------------------------------------------- Init
Init ==
    /\ sources = <<>>
    /\ pc = "idle"
    /\ cur = 0
    /\ batch = <<>>
    /\ pendingSaves = <<>>
    /\ writes = <<>>
    /\ elems = <<>>
    /\ status = <<>>
    /\ failure = <<>>
    /\ saveFailLogs = 0
    /\ streamErrLogs = 0
    /\ run = 0
    /\ prev = [elems |-> <<>>, failure |-> <<>>, nwrites |-> 0]

\* ---------------------------------------------------------------- actions
\* registerSource (lines 28-30)
RegisterSource(name) ==
    /\ pc = "idle"
    /\ Len(sources) < MaxSources
    /\ sources' = Append(sources, name)
    /\ elems' = Append(elems, <<>>)
    /\ status' = Append(status, "NotStarted")
    /\ failure' = Append(failure, "none")
    /\ UNCHANGED <<pc, cur, batch, pendingSaves, writes, saveFailLogs,
                   streamErrLogs, run, prev>>

\* ingestAll is called: the loop takes the first source, or returns when
\* there is none (lines 32-33)
IngestAll ==
    /\ pc = "idle"
    /\ LET nx == LoopNext(0, Len(sources))
       IN pc' = nx.pc /\ cur' = nx.cur /\ status' = Entered(status, nx)
    /\ run' = run + 1
    /\ UNCHANGED <<sources, batch, pendingSaves, writes, elems, failure,
                   saveFailLogs, streamErrLogs, prev>>

\* ingestAll is called again after it returned: the same registry is iterated
\* from its first source (lines 16, 32-33)
IngestAllAgainNothing ==
    /\ pc = "done"
    /\ run = 1
    /\ TotalPulled <= MaxRerunElems
    /\ run' = run + 1
    /\ prev' = [elems |-> elems, failure |-> failure, nwrites |-> Len(writes)]
    /\ UNCHANGED <<sources, pc, cur, batch, pendingSaves, writes, elems,
                   status, failure, saveFailLogs, streamErrLogs>>
IngestAllAgain ==
    /\ pc = "done"
    /\ run = 1
    /\ TotalPulled <= MaxRerunElems
    /\ run' = run + 1
    /\ prev' = [elems |-> elems, failure |-> failure, nwrites |-> Len(writes)]
    /\ elems' = [s \in DOMAIN sources |-> <<>>]
    /\ failure' = [s \in DOMAIN sources |-> "none"]
    /\ LET nx == LoopNext(0, Len(sources))
       IN /\ pc' = nx.pc
          /\ cur' = nx.cur
          /\ status' = Entered([s \in DOMAIN sources |-> "NotStarted"], nx)
    /\ UNCHANGED <<sources, batch, pendingSaves, writes, saveFailLogs,
                   streamErrLogs>>

\* ingestSource up to the for-await loop: getStream resolved, fresh batch and
\* pendingSaves, pipeline set up (lines 55-75)
OpenStream ==
    /\ pc = "open"
    /\ pc' = "pull"
    /\ batch' = <<>>
    /\ pendingSaves' = <<>>
    /\ UNCHANGED <<sources, cur, writes, elems, status, failure, saveFailLogs,
                   streamErrLogs, run, prev>>

\* httpClient.getStream rejects: ingestSource throws before any element is
\* pulled and ingestAll catches (lines 55, 36-44)
OpenFails ==
    /\ pc = "open"
    /\ failure' = [failure EXCEPT ![cur] = "open"]
    /\ LET nx == Caught(cur, Len(sources))
       IN /\ pc' = nx.pc
          /\ cur' = nx.cur
          /\ status' = Entered([status EXCEPT ![cur] = "Failed"], nx)
    /\ UNCHANGED <<sources, batch, pendingSaves, writes, elems, saveFailLogs,
                   streamErrLogs, run, prev>>

\* one iteration of the for-await loop whose mapper call returns
\* (lines 77-95); kind is what the mapper returns for the element
PullElement(kind) ==
    /\ pc = "pull"
    /\ TotalPulled < MaxElems
    /\ kind = "skip" => TotalSkipped < MaxSkips
    /\ elems' = [elems EXCEPT ![cur] = Append(@, kind)]
    /\ IF kind = "skip"
       THEN UNCHANGED <<pc, batch, pendingSaves, writes>>
       ELSE LET pushed == Push(batch, Len(elems[cur]) + 1) IN
            IF BatchFull(pushed)
            THEN LET cut == SpliceRemoved(pushed, BATCH_SIZE)
                     pend == Append(pendingSaves, SavePromise(writes, cut))
                 IN /\ batch' = SpliceRest(pushed, BATCH_SIZE)
                    /\ writes' = SaveBatch(writes, cur, cut)
                    /\ pendingSaves' = pend
                    /\ pc' = IF ReachedCeiling(pend) THEN "throttle"
                             ELSE "pull"
            ELSE /\ batch' = pushed
                 /\ UNCHANGED <<pc, pendingSaves, writes>>
    /\ UNCHANGED <<sources, cur, status, failure, saveFailLogs,
                   streamErrLogs, run, prev>>

\* the mapper throws on the element pulled: the exception leaves the loop and
\* ingestSource, and ingestAll catches it (lines 82, 36-44)
MapperThrows ==
    /\ pc = "pull"
    /\ TotalPulled < MaxElems
    /\ elems' = [elems EXCEPT ![cur] = Append(@, "throw")]
    /\ failure' = [failure EXCEPT ![cur] = "mapper"]
    /\ LET nx == Caught(cur, Len(sources))
       IN /\ pc' = nx.pc
          /\ cur' = nx.cur
          /\ status' = Entered([status EXCEPT ![cur] = "Failed"], nx)
    /\ UNCHANGED <<sources, batch, pendingSaves, writes, saveFailLogs,
                   streamErrLogs, run, prev>>

\* the byte stream fails: the pipeline callback logs it (lines 61-75) and the
\* destroyed jsonStream makes the for-await loop throw
StreamErrorLogsOnly ==
    /\ pc = "pull"
    /\ streamErrLogs' = streamErrLogs + 1
    /\ UNCHANGED <<sources, pc, cur, batch, pendingSaves, writes, elems,
                   status, failure, saveFailLogs, run, prev>>
StreamError ==
    /\ pc = "pull"
    /\ streamErrLogs' = streamErrLogs + 1
    /\ failure' = [failure EXCEPT ![cur] = "stream"]
    /\ LET nx == Caught(cur, Len(sources))
       IN /\ pc' = nx.pc
          /\ cur' = nx.cur
          /\ status' = Entered([status EXCEPT ![cur] = "Failed"], nx)
    /\ UNCHANGED <<sources, batch, pendingSaves, writes, elems,
                   saveFailLogs, run, prev>>

\* the stream ends: the remaining records are submitted and the final
\* flushPending is awaited (lines 97-102)
StreamEndSkipsDrain ==
    /\ pc = "pull"
    /\ IF HasRemainder(batch)
       THEN LET cut == SpliceRemoved(batch, Len(batch)) IN
            /\ writes' = SaveBatch(writes, cur, cut)
            /\ pendingSaves' = Append(pendingSaves, SavePromise(writes, cut))
            /\ batch' = SpliceRest(batch, Len(batch))
       ELSE UNCHANGED <<writes, pendingSaves, batch>>
    /\ pc' = "finished"
    /\ UNCHANGED <<sources, cur, elems, status, failure, saveFailLogs,
                   streamErrLogs, run, prev>>
StreamEnd ==
    /\ pc = "pull"
    /\ IF HasRemainder(batch)
       THEN LET cut == SpliceRemoved(batch, Len(batch)) IN
            /\ writes' = SaveBatch(writes, cur, cut)
            /\ pendingSaves' = Append(pendingSaves, SavePromise(writes, cut))
            /\ batch' = SpliceRest(batch, Len(batch))
       ELSE UNCHANGED <<writes, pendingSaves, batch>>
    /\ pc' = "drain"
    /\ status' = [status EXCEPT ![cur] = "Draining"]
    /\ UNCHANGED <<sources, cur, elems, failure, saveFailLogs,
                   streamErrLogs, run, prev>>

\* flushPending awaited inside the loop returns (lines 92, 123-126)
ThrottleResume ==
    /\ pc = "throttle"
    /\ AllSettled(writes, pendingSaves)
    /\ pendingSaves' = Cleared(pendingSaves)
    /\ pc' = "pull"
    /\ UNCHANGED <<sources, cur, batch, writes, elems, status, failure,
                   saveFailLogs, streamErrLogs, run, prev>>

\* the final flushPending returns (lines 102, 123-126)
DrainResume ==
    /\ pc = "drain"
    /\ AllSettled(writes, pendingSaves)
    /\ pendingSaves' = Cleared(pendingSaves)
    /\ pc' = "finished"
    /\ UNCHANGED <<sources, cur, batch, writes, elems, status, failure,
                   saveFailLogs, streamErrLogs, run, prev>>

\* finished(responseStream) resolves, ingestSource returns and the loop of
\* ingestAll moves on (lines 103-105, 33)
Finished ==
    /\ pc = "finished"
    /\ LET nx == LoopNext(cur, Len(sources))
       IN /\ pc' = nx.pc
          /\ cur' = nx.cur
          /\ status' = Entered([status EXCEPT ![cur] = "Completed"], nx)
    /\ UNCHANGED <<sources, batch, pendingSaves, writes, elems, failure,
                   saveFailLogs, streamErrLogs, run, prev>>

\* repository.saveAll of write w resolves (ok) or rejects; saveBatch logs a
\* rejection and its promise resolves either way (lines 111-120)
ResolveWrite(w, ok) ==
    /\ w \in DOMAIN writes
    /\ writes[w].state = "inflight"
    /\ writes' = [writes EXCEPT ![w].state = IF ok THEN "ok" ELSE "failed"]
    /\ saveFailLogs' = saveFailLogs + FailLogs(ok)
    /\ UNCHANGED <<sources, pc, cur, batch, pendingSaves, elems, status,
                   failure, streamErrLogs, run, prev>>

Next ==
    \/ \E name \in SourceNames : RegisterSource(name)
    \/ IngestAll
    \/ OpenStream
    \/ OpenFails
    \/ \E kind \in {"rec", "skip"} : PullElement(kind)
    \/ MapperThrows
    \/ StreamError
    \/ StreamEnd
    \/ ThrottleResume
    \/ DrainResume
    \/ Finished
    \/ \E w \in DOMAIN writes : \E ok \in BOOLEAN : ResolveWrite(w, ok)

Spec == Init /\ [][Next]_vars

\* the steps of ingestSource: continuations the event loop runs once what
\* they await is there
Driver ==
    \/ OpenStream
    \/ OpenFails
    \/ \E kind \in {"rec", "skip"} : PullElement(kind)
    \/ MapperThrows
    \/ StreamError
    \/ StreamEnd
    \/ ThrottleResume
    \/ DrainResume
    \/ Finished

\* the repository answers some write in flight
Resolve == \E w \in DOMAIN writes : \E ok \in BOOLEAN : ResolveWrite(w, ok)

FairNext ==
    \/ \E name \in SourceNames :
          RegisterSource(name) /\ Len(sources') <= MaxFairSources
    \/ IngestAll
    \/ Driver
    \/ Resolve

\* every stream opens or fails to, delivers finitely many elements and ends;
\* every write is answered in the end
FairSpec == Init /\ [][FairNext]_vars /\ WF_vars(Driver) /\ WF_vars(Resolve)

\* s is an initial part of t
IsPrefix(s, t) == Len(s) <= Len(t) /\ s = SubSeq(t, 1, Len(s))

\* in a second run the streams and mappers give what they gave in the first:
\* the same elements with the same mapper outcomes, ending the same way
SameInput ==
    run = 2 =>
        /\ \A s \in DOMAIN sources :
              /\ IsPrefix(elems[s], prev.elems[s])
              /\ failure[s] # "none" =>
                    (failure[s] = prev.failure[s] /\ elems[s] = prev.elems[s])
              /\ status[s] \in {"Draining", "Completed"} =>
                    (prev.failure[s] = "none" /\ elems[s] = prev.elems[s])
        /\ pc \in {"pull", "throttle", "drain", "finished"} =>
              prev.failure[cur] # "open"

\* ingestAll called once or twice, the second time on the same input
NextRerun ==
    \/ (\E name \in SourceNames : RegisterSource(name)) /\ SameInput'
    \/ IngestAll /\ SameInput'
    \/ OpenStream /\ SameInput'
    \/ OpenFails /\ SameInput'
    \/ (\E kind \in {"rec", "skip"} : PullElement(kind)) /\ SameInput'
    \/ MapperThrows /\ SameInput'
    \/ StreamError /\ SameInput'
    \/ StreamEnd /\ SameInput'
    \/ ThrottleResume /\ SameInput'
    \/ DrainResume /\ SameInput'
    \/ Finished /\ SameInput'
    \/ (\E w \in DOMAIN writes : \E ok \in BOOLEAN : ResolveWrite(w, ok))
          /\ SameInput'
    \/ IngestAllAgain

SpecRerun == Init /\ [][NextRerun]_vars

\* ------------------------------------------------- what the claims speak of
Srcs == DOMAIN sources

\* indices of the elements of source s the mapper returned a record for, in
\* element order
Mappable(s) ==
    LET IsRec(i) == elems[s][i] = "rec"
        idx == [i \in 1..Len(elems[s]) |-> i]
    IN SelectSeq(idx, IsRec)

\* the saveAll calls made for source s, in call order
WritesOf(s) == LET Mine(w) == w.src = s IN SelectSeq(writes, Mine)

RECURSIVE Concat(_)
Concat(ws) == IF ws = <<>> THEN <<>> ELSE Head(ws).recs \o Concat(Tail(ws))

\* all records handed to saveAll for source s, in hand-over order
Handed(s) == Concat(WritesOf(s))

\* number of writes of source s dispatched and not yet resolved
InFlight(s) ==
    Cardinality({w \in DOMAIN writes :
                    writes[w].src = s /\ writes[w].state = "inflight"})

Undersized(s) ==
    {k \in 1..Len(WritesOf(s)) : Len(WritesOf(s)[k].recs) < BATCH_SIZE}

NumFailed ==
    Cardinality({w \in DOMAIN writes : writes[w].state = "failed"})

\* C1: when ingestSource completes, the records handed to saveAll for the
\* source are exactly the non-skip mapper outputs, each exactly once.
C1_NoLossNoDuplication ==
    \A s \in Srcs : status[s] = "Completed" =>
        /\ Range(Handed(s)) \subseteq DOMAIN elems[s]
        /\ \A i \in DOMAIN elems[s] :
              CountOf(Handed(s), i) = IF elems[s][i] = "rec" THEN 1 ELSE 0

\* a completed source with a skipped element whose records crossed the
\* batch-full boundary
C1_Witness ==
    \E s \in Srcs :
        /\ status[s] = "Completed"
        /\ Len(WritesOf(s)) >= 2
        /\ CountOf(elems[s], "skip") >= 1
        /\ Len(Mappable(s)) > BATCH_SIZE

\* C2 (as claimed): at the end of a run every pulled element the mapper
\* returned a record for is in exactly one batch handed to the writer, also
\* when the source failed later.
C2_NoPulledRecordDropped ==
    pc = "done" =>
        \A s \in Srcs : \A i \in DOMAIN elems[s] :
            elems[s][i] = "rec" => CountOf(Handed(s), i) = 1

\* C3: a completed source with N mappable records was written in
\* ceil(N / B) batches, the first N div B of size B and, when N mod B > 0, a
\* last one of size N mod B; none for N = 0.
C3_BatchCountAndSizes ==
    \A s \in Srcs : status[s] = "Completed" =>
        LET N == Len(Mappable(s))
            ws == WritesOf(s)
        IN /\ Len(ws) = (N + BATCH_SIZE - 1) \div BATCH_SIZE
           /\ \A k \in 1..Len(ws) :
                 Len(ws[k].recs) = IF k <= N \div BATCH_SIZE THEN BATCH_SIZE
                                   ELSE N % BATCH_SIZE

\* the scaled example: N = 2B + 1 gives sizes B, B, 1
C3_Witness ==
    \E s \in Srcs :
        /\ status[s] = "Completed"
        /\ Len(Mappable(s)) = 2 * BATCH_SIZE + 1
        /\ Len(WritesOf(s)) = 3

\* exactly one undersized batch was written for s, and it is the last one
OneUndersizedLast(s) == Undersized(s) = {Len(WritesOf(s))} /\ WritesOf(s) # <<>>

\* C4 (as claimed): a completed source whose number of pulled elements,
\* skipped ones included, is not a multiple of B got exactly one undersized
\* batch, the last one.
C4_UndersizedByInputLength ==
    \A s \in Srcs :
        (status[s] = "Completed" /\ Len(elems[s]) % BATCH_SIZE # 0)
            => OneUndersizedLast(s)

\* C4 (amended): a completed source whose number of non-skip mapper outputs
\* is not a multiple of B got exactly one undersized batch, the last one.
C4_UndersizedByMappedCount ==
    \A s \in Srcs :
        (status[s] = "Completed" /\ Len(Mappable(s)) % BATCH_SIZE # 0)
            => OneUndersizedLast(s)

\* a completed source whose input length is a multiple of B while its number
\* of records is not, written in a full and an undersized batch
C4_Witness ==
    \E s \in Srcs :
        /\ status[s] = "Completed"
        /\ Len(elems[s]) % BATCH_SIZE = 0
        /\ Len(Mappable(s)) % BATCH_SIZE # 0
        /\ Len(WritesOf(s)) >= 2

\* C5: the number of registered pending-write handles, and the number of
\* writes of any one source in flight, never exceeds
\* MAX_CONCURRENT_BATCHES.
C5_PendingAtMostCeiling ==
    /\ Len(pendingSaves) <= MAX_CONCURRENT_BATCHES
    /\ \A s \in Srcs : InFlight(s) <= MAX_CONCURRENT_BATCHES

\* right after the trailing partial batch was submitted at stream end, with
\* the ceiling reached and every registered write unresolved
C5_Witness ==
    /\ pc = "drain"
    /\ Len(pendingSaves) = MAX_CONCURRENT_BATCHES
    /\ InFlight(cur) = MAX_CONCURRENT_BATCHES
    /\ Len(writes[Len(writes)].recs) < BATCH_SIZE

\* C6: while MAX_CONCURRENT_BATCHES writes of the current source are
\* unresolved, no step pulls or maps an element or dispatches a batch.
C6_Backpressure ==
    [][(cur \in Srcs /\ InFlight(cur) >= MAX_CONCURRENT_BATCHES)
          => (elems' = elems /\ Len(writes') = Len(writes))]_vars

\* the driver suspended at the ceiling check inside the loop with
\* MAX_CONCURRENT_BATCHES full batches unresolved
C6_Witness ==
    /\ pc = "throttle"
    /\ InFlight(cur) = MAX_CONCURRENT_BATCHES

\* C7 (as claimed): an unresolved write always belongs to the source being
\* ingested: none is left when the next source starts or ingestAll returns.
C7_PreviousSourceDrained ==
    \A w \in DOMAIN writes :
        writes[w].state = "inflight" => (writes[w].src = cur /\ pc # "done")

\* C8: a source is Completed, and its final drain has returned, only when
\* every write dispatched for it has resolved.
C8_CompletedOnlyAfterAllResolved ==
    /\ \A s \in Srcs : status[s] = "Completed" => InFlight(s) = 0
    /\ pc = "finished" => InFlight(cur) = 0

\* the final drain has returned for a source that had a full and a trailing
\* partial batch registered
C8_Witness ==
    /\ pc = "finished"
    /\ Len(WritesOf(cur)) >= 2
    /\ Len(Mappable(cur)) % BATCH_SIZE # 0
    /\ Len(Mappable(cur)) < BATCH_SIZE * MAX_CONCURRENT_BATCHES

\* C9: every rejected write is logged exactly once, a write changes only on
\* its own resolution and leaves every other write as it is, and a source
\* that raised no error completes with all its batches submitted and
\* resolved whichever of its writes fail.
C9_WriteFailureIsolated ==
    /\ [](saveFailLogs = NumFailed)
    /\ [](pc = "done" =>
            \A s \in Srcs : failure[s] = "none" =>
                /\ status[s] = "Completed"
                /\ Handed(s) = Mappable(s)
                /\ InFlight(s) = 0)
    /\ [][\A w \in DOMAIN writes : writes'[w] # writes[w] =>
            /\ writes[w].state = "inflight"
            /\ writes'[w] = [writes[w] EXCEPT !.state = writes'[w].state]
            /\ \A v \in DOMAIN writes : v # w => writes'[v] = writes[v]]_vars

\* a completed source whose batch k failed and whose batch k + 1 succeeded
C9_Witness ==
    /\ pc = "done"
    /\ \E s \in Srcs :
          /\ status[s] = "Completed"
          /\ \E k \in 1..(Len(WritesOf(s)) - 1) :
                /\ WritesOf(s)[k].state = "failed"
                /\ WritesOf(s)[k + 1].state = "ok"

\* C10: once the mapper of a source has thrown, no further element of that
\* source is pulled and no further batch of it is dispatched; ingestAll
\* still returns normally, and every later source that raises no error of
\* its own is Completed with all its non-skip records handed to the writer.
C10_MapperFailureIsolated ==
    /\ [][\A a \in Srcs : failure[a] = "mapper" =>
            /\ elems'[a] = elems[a]
            /\ Len(WritesOf(a))' = Len(WritesOf(a))
            /\ status'[a] = "Failed"]_vars
    /\ [](pc = "done" =>
            \A a \in Srcs : \A b \in Srcs :
                (failure[a] = "mapper" /\ a < b /\ failure[b] = "none") =>
                    /\ status[b] = "Completed"
                    /\ Handed(b) = Mappable(b))

\* source 1 failed in its mapper after some elements and source 2 completed
\* with records written
C10_Witness ==
    /\ pc = "done"
    /\ Len(sources) >= 2
    /\ failure[1] = "mapper"
    /\ Len(elems[1]) >= 2
    /\ status[2] = "Completed"
    /\ Len(WritesOf(2)) >= 1

\* C11: sources are processed one at a time in registration order: only the
\* source the loop is at is in progress, every earlier one is Completed or
\* Failed and every later one not started; when ingestAll returns, every
\* registered source was attempted whatever error an earlier one raised.
C11_SequentialAllAttempted ==
    /\ \A s \in Srcs :
          /\ status[s] \in {"Streaming", "Draining"}
                => (s = cur /\ pc \notin {"idle", "done"})
          /\ s < cur => status[s] \in {"Completed", "Failed"}
          /\ s > cur => status[s] = "NotStarted"
    /\ pc = "done" => \A s \in Srcs : status[s] \in {"Completed", "Failed"}

\* the same source registered twice: its first ingestion failed on a stream
\* error, its second one completed with records written
C11_Witness ==
    /\ pc = "done"
    /\ Len(sources) = 2
    /\ sources[1] = sources[2]
    /\ failure[1] = "stream"
    /\ status[2] = "Completed"
    /\ Len(WritesOf(2)) >= 1

C13_ResumesBelowCeiling ==
    (pc = "throttle" /\ InFlight(cur) < MAX_CONCURRENT_BATCHES)
        => ENABLED ThrottleResume

\* C13 (amended): a driver suspended at the ceiling check can resume exactly
\* when all the writes it registered have resolved; while one is unresolved
\* it stays suspended.
C13_ResumesOnlyWhenAllResolved ==
    pc = "throttle" => (ENABLED ThrottleResume <=> InFlight(cur) = 0)

\* suspended at the ceiling check with the unresolved count below the
\* ceiling: a later write has resolved, the first one has not
C13_Witness ==
    /\ pc = "throttle"
    /\ InFlight(cur) = 1
    /\ WritesOf(cur)[1].state = "inflight"
    /\ ~ ENABLED ThrottleResume

\* the (source, records) pairs of a sequence of saveAll calls
Batches(ws) == [i \in DOMAIN ws |-> <<ws[i].src, ws[i].recs>>]

\* C14: when a second ingestAll on the same sources and the same input has
\* returned, the batches it handed to the writer are the batches of the
\* first run over again: every batch of the first run was handed over twice.
C14_RerunDuplicatesWrites ==
    (pc = "done" /\ run = 2 /\ elems = prev.elems /\ failure = prev.failure)
        => /\ Len(writes) = 2 * prev.nwrites
           /\ Batches(SubSeq(writes, prev.nwrites + 1, Len(writes)))
                 = Batches(SubSeq(writes, 1, prev.nwrites))

\* a second run has returned after a first run that wrote a full and a
\* partial batch
C14_Witness ==
    /\ pc = "done"
    /\ run = 2
    /\ elems = prev.elems
    /\ prev.nwrites >= 2
    /\ Len(writes) = 2 * prev.nwrites

\* the steps of a source's lifecycle
Lifecycle ==
    {<<"NotStarted", "Streaming">>, <<"Streaming", "Draining">>,
     <<"Draining", "Completed">>, <<"Streaming", "Failed">>,
     <<"Draining", "Failed">>}

\* C15: a source's state changes only along NotStarted -> Streaming ->
\* Draining -> Completed, or from Streaming or Draining to Failed; a source
\* that fails is absorbed: the loop of ingestAll goes on as after a
\* completed one.
C15_SourceStateMachine ==
    [][\A s \in DOMAIN status :
          status'[s] # status[s] =>
              /\ <<status[s], status'[s]>> \in Lifecycle
              /\ status'[s] = "Failed" =>
                    [pc |-> pc', cur |-> cur'] = LoopNext(s, Len(sources))]_vars

\* the run is over with one source that went all the way to Completed and
\* one that failed while streaming
C15_Witness ==
    /\ pc = "done"
    /\ \E s \in Srcs : status[s] = "Completed" /\ Len(WritesOf(s)) >= 1
    /\ \E s \in Srcs : status[s] = "Failed" /\ failure[s] = "mapper"

\* C16 (as claimed): while a write of a source is unresolved, that source is
\* not Completed, ingestAll has not returned and no later source was
\* started; so a write that never resolves blocks the run for good.
C16_HungWriteBlocksRun ==
    \A w \in DOMAIN writes :
        writes[w].state = "inflight" =>
            /\ status[writes[w].src] # "Completed"
            /\ pc # "done"
            /\ cur <= writes[w].src

\* C17: the records handed to saveAll for a source, batch after batch in
\* call order, followed by the records still in its buffer, are the non-skip
\* mapper outputs in element order; a full batch is never left waiting in
\* the buffer; and every write in flight can be the next to resolve, with
\* either outcome.
C17_DispatchOrder ==
    /\ \A s \in Srcs : IsPrefix(Handed(s), Mappable(s))
    /\ pc \in {"pull", "throttle"} =>
          (Handed(cur) \o batch = Mappable(cur) /\ Len(batch) < BATCH_SIZE)
    /\ \A s \in Srcs :
          (status[s] = "Completed" \/ (s = cur /\ pc \in {"drain", "finished"}))
              => Handed(s) = Mappable(s)
    /\ \A w \in DOMAIN writes : writes[w].state = "inflight" =>
          (ENABLED ResolveWrite(w, TRUE) /\ ENABLED ResolveWrite(w, FALSE))

\* a source in its final drain, with a skipped element, whose second batch
\* resolved while its first and third are still in flight
C17_Witness ==
    \E s \in Srcs :
        /\ Len(WritesOf(s)) >= 3
        /\ Len(elems[s]) > Len(Mappable(s))
        /\ s = cur
        /\ pc = "drain"
        /\ WritesOf(s)[1].state = "inflight"
        /\ WritesOf(s)[2].state # "inflight"
        /\ WritesOf(s)[3].state = "inflight"

\* C18: every batch handed to saveAll has between 1 and BATCH_SIZE records;
\* a batch handed over keeps its source and records for good; and no record
\* of a batch handed over is in the buffer the driver goes on filling.
C18_BatchesBoundedAndFrozen ==
    /\ [](\A w \in DOMAIN writes :
            /\ Len(writes[w].recs) >= 1
            /\ Len(writes[w].recs) <= BATCH_SIZE)
    /\ [](\A w \in DOMAIN writes :
            (writes[w].src = cur /\ pc \in {"pull", "throttle"})
                => Range(writes[w].recs) \cap Range(batch) = {})
    /\ [][\A w \in DOMAIN writes :
            /\ w \in DOMAIN writes'
            /\ writes'[w].recs = writes[w].recs
            /\ writes'[w].src = writes[w].src]_vars

\* a record was pushed into the buffer after a full batch of the same source
\* was cut and dispatched
C18_Witness ==
    /\ pc = "pull"
    /\ Len(WritesOf(cur)) >= 1
    /\ Len(batch) = 1
    /\ Len(WritesOf(cur)[1].recs) = BATCH_SIZE

\* C19: once ingestAll is called it returns in the end, with every
\* registered source Completed or Failed.
C19_Termination ==
    (pc # "idle") ~>
        (pc = "done" /\ \A s \in Srcs : status[s] \in {"Completed", "Failed"})

\* ingestAll has returned after a source that was suspended at the ceiling
\* check completed, all its writes answered and one of them rejected
C19_Witness ==
    /\ pc = "done"
    /\ \A s \in Srcs : status[s] = "Completed"
    /\ \E s \in Srcs : Len(WritesOf(s)) > MAX_CONCURRENT_BATCHES
    /\ \A w \in DOMAIN writes : writes[w].state # "inflight"
    /\ NumFailed >= 1

\* C20: while the driver awaits the next element or waits at the ceiling
\* check, the buffer holds fewer than BATCH_SIZE records and the registered
\* handles, resolved or not, are the full batches submitted since the last
\* drain: fewer than MAX_CONCURRENT_BATCHES while it pulls, exactly
\* MAX_CONCURRENT_BATCHES when it drains, which is after every
\* MAX_CONCURRENT_BATCHES-th full batch of the source.
C20_BufferAndDrainCadence ==
    pc \in {"pull", "throttle"} =>
        /\ Len(batch) < BATCH_SIZE
        /\ \A k \in 1..Len(WritesOf(cur)) :
              Len(WritesOf(cur)[k].recs) = BATCH_SIZE
        /\ pc = "pull" =>
              Len(pendingSaves) = Len(WritesOf(cur)) % MAX_CONCURRENT_BATCHES
        /\ pc = "throttle" =>
              /\ Len(pendingSaves) = MAX_CONCURRENT_BATCHES
              /\ Len(WritesOf(cur)) % MAX_CONCURRENT_BATCHES = 0

\* the driver awaits the next element right after the drain that followed
\* the MAX_CONCURRENT_BATCHES-th full batch, with a record in the buffer
C20_Witness ==
    /\ pc = "pull"
    /\ Len(WritesOf(cur)) = MAX_CONCURRENT_BATCHES
    /\ pendingSaves = <<>>
    /\ Len(batch) = 1

====
